---- MODULE Spec2Model ----
(***************************************************************************)
(* Model of the chat backend: the in-process rate limiter                  *)
(* (backend/app/middleware/rate_limit.py: RateLimiter and                  *)
(* RateLimitMiddleware) and the database-backed chat router                *)
(* (backend/app/routers/chat_db.py, services/chat_history_db.py).          *)
(*                                                                         *)
(* The wall clock (time.time()) is sampled at whole seconds and never runs *)
(* backwards; it moves through the instants of Times.                      *)
(*                                                                         *)
(* Spec      one client, direct calls of check_rate_limit and requests     *)
(*           through the middleware, with history variables that count     *)
(*           calls independently of the limiter's own maps.                *)
(* SpecPair  two clients on one limiter, next to a second limiter that is  *)
(*           given the calls of Client2 only.                              *)
(* SpecHttp  requests of one client through RateLimitMiddleware.dispatch.  *)
(* SpecLoop  several requests in flight on the event loop: dispatch        *)
(*           suspends only while the handler runs.                         *)
(* SpecClassify  the classification of method and path by dispatch.        *)
(* SpecStore the handlers of the chat router on the two tables, one        *)
(*           transaction and one new ChatHistoryDBService per request.     *)
(* SpecQuota one client, chat and other calls, with a history of when      *)
(*           calls of each class were admitted.                            *)
(* SpecDense two clients on a clock with adjacent seconds, for the buckets *)
(*           the cleanup pass keeps and deletes.                           *)
(* SpecBoth  the limiter next to a reference limiter that never deletes a  *)
(*           bucket, given the same calls.                                 *)
(* SpecThreads  two threads inside check_rate_limit, interleaved between   *)
(*           the read of the counts and each load and store of an          *)
(*           increment.                                                    *)
(* SpecService  the in-memory ChatHistoryService                           *)
(*           (services/chat_history.py) under any sequence of calls.       *)
(* SpecGateway  OpenRouterService.send_message (services/openrouter.py)    *)
(*           and the gateway request counter, for every reply of the POST. *)
(***************************************************************************)
EXTENDS Integers, Sequences, FiniteSets, TLC

\* ---------------------------------------------------------------- bounds
\* the minute ceilings of a configuration are drawn from {1, MaxLimit}, the
\* hour ceilings from {1, MaxLimit + 1}
MaxLimit == 3
\* max_burst is drawn from 1..MaxBurst
MaxBurst == 2
\* SpecLoop: requests that enter dispatch
MaxRequests == 3
\* SpecStore: sessions created
MaxSessions == 2
\* SpecStore: messages inserted
MaxInserts == 4
\* SpecThreads: calls of check_rate_limit started; SpecService, SpecGateway:
\* calls made
MaxCalls == 4

\* ------------------------------------------------------ program constants
\* int(current_time // 60)
SecPerMinute == 60
\* int(current_time // 3600)
SecPerHour == 3600
\* if current_time - self._last_cleanup < 60: return
CleanupInterval == 60
\* JSONResponse(status_code=429, ...)
TooManyRequests == 429
\* HTTPException(status_code=400, detail="Invalid session ID")
BadRequest == 400
\* HTTPException(status_code=404, detail="Session not found")
NotFound == 404
\* HTTPException(status_code=500, detail=str(e))
ServerError == 500
\* content[:50] + ("..." if len(content) > 50 else "")
TitleLimit == 50

\* client identifiers
Client1 == "10.0.0.1"
Client2 == "10.0.0.2"
Clients == {Client1, Client2}

\* instants at which the clock is read: two instants one second apart, three
\* consecutive minutes, three consecutive hours
Times == {0, 1, 60, 120, 3600, 7200}

\* "no value"
None == [none |-> TRUE]

VARIABLES
    now,              \* time.time()
    config,           \* the RateLimitConfig in use
    last_cleanup,     \* RateLimiter._last_cleanup
    second_windows,   \* RateLimiter._second_windows
    minute_windows,   \* RateLimiter._minute_windows
    hour_windows,     \* RateLimiter._hour_windows
    last,             \* the check_rate_limit call made by the latest step, if any
    resp,             \* the response RateLimitMiddleware.dispatch gave in the latest step
    admitted,         \* history: admitted calls per client in the current second/minute/hour
    calls,            \* history: calls per client in the current minute
    reported,         \* history: remaining values last reported per client and class
    retry,            \* history: the retry a denied client was told to make
    solo,             \* SpecPair: a second limiter that is given Client2's calls only
    inflight,         \* SpecLoop: the requests suspended in "await call_next(request)"
    served,           \* SpecLoop: how many times a route handler has run
    arrived,          \* SpecLoop: how many requests have entered dispatch
    granted,          \* SpecLoop history: admitted requests per client and bucket
    probe,            \* SpecClassify: a request and what dispatch makes of it
    sessions,         \* SpecStore: the rows of table chat_sessions
    messages,         \* SpecStore: the rows of table messages
    clock,            \* SpecStore: datetime.utcnow() at the latest committed insert
    issued,           \* SpecStore: how many session ids uuid4 has produced
    reply,            \* SpecStore: the latest request and the answer of its handler
    log,              \* SpecStore history: what was added to each session since its last clear
    chats,            \* SpecQuota history: chat calls admitted in the current minute and hour
    stamps,           \* SpecQuota history: when non-chat calls were admitted
    reference,        \* SpecBoth: a limiter that never deletes a bucket
    threads,          \* SpecThreads: where each thread is in check_rate_limit, and its locals
    passed,           \* SpecThreads history: calls admitted in the current buckets
    started,          \* SpecThreads: how many calls have been started
    service,          \* SpecService: the ChatHistoryService singleton
    asked,            \* SpecService history: the calls made and the latest of them
    gateway           \* SpecGateway: the gateway request counter and the calls of send_message

limiter == <<last_cleanup, second_windows, minute_windows, hour_windows>>
history == <<admitted, calls, reported, retry>>
loop == <<inflight, served, arrived, granted>>
store == <<sessions, messages, clock, issued, reply, log>>
race == <<threads, passed, started>>
apart == <<service, asked, gateway>>
later == <<race, apart>>
more == <<chats, stamps, reference, later>>
\* what the limiter's specifications leave alone
rest == <<loop, probe, store, more>>
vars == <<now, config, limiter, last, resp, history, solo, loop, probe, store, more>>

\* ------------------------------------------------------------ RateLimitConfig
\* paths are sequences of characters
HealthPath == <<"/","h","e","a","l","t","h">>
MetricsPath == <<"/","m","e","t","r","i","c","s">>
ChatPath == <<"/","a","p","i","/","c","h","a","t">>
ClearPath == <<"/","a","p","i","/","c","h","a","t","/","c","l","e","a","r">>
ModelsPath == <<"/","a","p","i","/","m","o","d","e","l","s">>

\* exempt_paths
ExemptPaths ==
    { HealthPath, MetricsPath,
      <<"/","d","o","c","s">>,
      <<"/","r","e","d","o","c">>,
      <<"/","o","p","e","n","a","p","i",".","j","s","o","n">> }

RateLimitConfig ==
    [requests_per_minute : {1, MaxLimit},
     requests_per_hour : {1, MaxLimit + 1},
     chat_requests_per_minute : {1, MaxLimit},
     chat_requests_per_hour : {1, MaxLimit + 1},
     max_burst : 1..MaxBurst,
     exempt_paths : {ExemptPaths}]

\* --------------------------------------------------- defaultdict operations
\* an empty dict
EmptyDict == [k \in {} |-> 0]

\* windows[ip].get(key, 0): the value read (the lookup of windows[ip] itself
\* inserts an empty dict for a missing ip, see Touch)
Get(windows, ip, key) ==
    IF ip \in DOMAIN windows /\ key \in DOMAIN windows[ip] THEN windows[ip][key] ELSE 0

\* windows[ip] on a defaultdict: a missing ip is inserted with an empty dict
Touch(windows, ip) ==
    IF ip \in DOMAIN windows THEN windows
    ELSE [c \in DOMAIN windows \cup {ip} |-> IF c = ip THEN EmptyDict ELSE windows[c]]

\* faulty variant: the count read before another check's increment is written
\* back, which loses that increment
IncrementLost(windows, ip, key) ==
    [Touch(windows, ip) EXCEPT ![ip] =
        [k \in DOMAIN Touch(windows, ip)[ip] \cup {key} |->
            IF k = key THEN 1 ELSE windows[ip][k]]]

\* windows[ip][key] += 1
Increment(windows, ip, key) ==
    LET w == Touch(windows, ip)
        d == w[ip]
    IN  [w EXCEPT ![ip] = [k \in DOMAIN d \cup {key} |->
                              IF k = key THEN Get(w, ip, key) + 1 ELSE d[k]]]

\* faulty variant: one more bucket is kept
IsOldLate(window_key, current) == window_key < current - 2
\* faulty variant: the current bucket is deleted as well
IsOldAll(window_key, current) == window_key <= current
\* the test that deletes a window key
IsOld(window_key, current) == window_key < current - 1

\* faulty variant: a client left without keys stays
CleanupWindowsKeepClient(windows, current) ==
    [ip \in DOMAIN windows |->
        [k \in {w \in DOMAIN windows[ip] : ~IsOld(w, current)} |-> windows[ip][k]]]
\* one of the three loops of _cleanup_old_windows: old keys are deleted, then
\* a client left without keys is deleted
CleanupWindows(windows, current) ==
    LET kept(ip) == {k \in DOMAIN windows[ip] : ~IsOld(k, current)}
        ips == {ip \in DOMAIN windows : kept(ip) # {}}
    IN  [ip \in ips |-> [k \in kept(ip) |-> windows[ip][k]]]

\* the guard of _cleanup_old_windows
CleanupDue(current_time, last_run) == ~(current_time - last_run < CleanupInterval)

\* _cleanup_old_windows(current_time): the limiter's maps and _last_cleanup
\* after the call
Cleanup(current_time, lc, sw, mw, hw) ==
    IF ~CleanupDue(current_time, lc)
    THEN [lc |-> lc, sw |-> sw, mw |-> mw, hw |-> hw]
    ELSE [lc |-> current_time,
          sw |-> CleanupWindows(sw, current_time),
          mw |-> CleanupWindows(mw, current_time \div SecPerMinute),
          hw |-> CleanupWindows(hw, current_time \div SecPerHour)]

\* ------------------------------------------------------- check_rate_limit
\* faulty variant: the general ceiling whatever the class
MinuteLimitGeneral(cfg, is_chat) == cfg.requests_per_minute
MinuteLimit(cfg, is_chat) ==
    IF is_chat THEN cfg.chat_requests_per_minute ELSE cfg.requests_per_minute

HourLimit(cfg, is_chat) ==
    IF is_chat THEN cfg.chat_requests_per_hour ELSE cfg.requests_per_hour

Max(a, b) == IF a >= b THEN a ELSE b

\* faulty variant: the call being made is not subtracted
RemainingBeforeCall(limit, count) == Max(0, limit - count)
\* max(0, limit - count - 1)
Remaining(limit, count) == Max(0, limit - count - 1)

LimitMinuteHeader == "X-RateLimit-Limit-Minute"
RemainingMinuteHeader == "X-RateLimit-Remaining-Minute"
LimitHourHeader == "X-RateLimit-Limit-Hour"
RemainingHourHeader == "X-RateLimit-Remaining-Hour"
RetryAfterHeader == "Retry-After"
RateLimitHeaders ==
    {LimitMinuteHeader, RemainingMinuteHeader, LimitHourHeader, RemainingHourHeader}

\* the headers dict built before the three tests
InfoHeaders(minute_limit, minute_count, hour_limit, hour_count) ==
    [h \in RateLimitHeaders |->
        CASE h = LimitMinuteHeader -> minute_limit
          [] h = RemainingMinuteHeader -> Remaining(minute_limit, minute_count)
          [] h = LimitHourHeader -> hour_limit
          [] h = RemainingHourHeader -> Remaining(hour_limit, hour_count)]

\* headers["Retry-After"] = value
WithRetryAfter(headers, value) ==
    [h \in DOMAIN headers \cup {RetryAfterHeader} |->
        IF h = RetryAfterHeader THEN value ELSE headers[h]]

BurstReason == "Burst limit exceeded. Please slow down."
\* f"Rate limit exceeded. Max {minute_limit} requests per minute."
MinuteReason(minute_limit) ==
    "Rate limit exceeded. Max " \o ToString(minute_limit) \o " requests per minute."
\* f"Hourly rate limit exceeded. Max {hour_limit} requests per hour."
HourReason(hour_limit) ==
    "Hourly rate limit exceeded. Max " \o ToString(hour_limit) \o " requests per hour."
NoReason == ""

\* faulty variant: the burst test lets one call too many through
BurstExceededLate(second_count, cfg) == second_count > cfg.max_burst
BurstExceeded(second_count, cfg) == second_count >= cfg.max_burst
\* faulty variant: the minute test lets one call too many through
MinuteExceededLate(minute_count, minute_limit) == minute_count > minute_limit
MinuteExceeded(minute_count, minute_limit) == minute_count >= minute_limit
HourExceeded(hour_count, hour_limit) == hour_count >= hour_limit

\* 60 - int(current_time % 60)
RetryAfterMinute(current_time) == SecPerMinute - (current_time % SecPerMinute)
\* 3600 - int(current_time % 3600)
RetryAfterHour(current_time) == SecPerHour - (current_time % SecPerHour)

\* what the burst test returns when it fails
BurstDenial(headers) ==
    [allowed |-> FALSE, reason |-> BurstReason, headers |-> headers]

\* faulty variant: the minute test is made before the burst test
VerdictMinuteFirst(cfg, is_chat, current_time, second_count, minute_count, hour_count) ==
    LET minute_limit == MinuteLimit(cfg, is_chat)
        hour_limit == HourLimit(cfg, is_chat)
        headers == InfoHeaders(minute_limit, minute_count, hour_limit, hour_count)
    IN  IF MinuteExceeded(minute_count, minute_limit)
        THEN [allowed |-> FALSE, reason |-> MinuteReason(minute_limit),
              headers |-> WithRetryAfter(headers, RetryAfterMinute(current_time))]
        ELSE IF BurstExceeded(second_count, cfg)
        THEN BurstDenial(headers)
        ELSE IF HourExceeded(hour_count, hour_limit)
        THEN [allowed |-> FALSE, reason |-> HourReason(hour_limit),
              headers |-> WithRetryAfter(headers, RetryAfterHour(current_time))]
        ELSE [allowed |-> TRUE, reason |-> NoReason, headers |-> headers]

\* the three tests in their order, and what each returns
Verdict(cfg, is_chat, current_time, second_count, minute_count, hour_count) ==
    LET minute_limit == MinuteLimit(cfg, is_chat)
        hour_limit == HourLimit(cfg, is_chat)
        headers == InfoHeaders(minute_limit, minute_count, hour_limit, hour_count)
    IN  IF BurstExceeded(second_count, cfg)
        THEN BurstDenial(headers)
        ELSE IF MinuteExceeded(minute_count, minute_limit)
        THEN [allowed |-> FALSE, reason |-> MinuteReason(minute_limit),
              headers |-> WithRetryAfter(headers, RetryAfterMinute(current_time))]
        ELSE IF HourExceeded(hour_count, hour_limit)
        THEN [allowed |-> FALSE, reason |-> HourReason(hour_limit),
              headers |-> WithRetryAfter(headers, RetryAfterHour(current_time))]
        ELSE [allowed |-> TRUE, reason |-> NoReason, headers |-> headers]

\* faulty variant: a denied call is counted as well
CountedAlways(ip, current_time, c, v) ==
    [allowed |-> v.allowed, reason |-> v.reason, headers |-> v.headers,
     lc |-> c.lc,
     sw |-> Increment(c.sw, ip, current_time),
     mw |-> Increment(c.mw, ip, current_time \div SecPerMinute),
     hw |-> Increment(c.hw, ip, current_time \div SecPerHour)]

\* faulty variant: the hour counter is not incremented
CountedNoHour(ip, current_time, c, v) ==
    [allowed |-> v.allowed, reason |-> v.reason, headers |-> v.headers,
     lc |-> c.lc,
     sw |-> IF v.allowed THEN Increment(c.sw, ip, current_time) ELSE Touch(c.sw, ip),
     mw |-> IF v.allowed THEN Increment(c.mw, ip, current_time \div SecPerMinute)
            ELSE Touch(c.mw, ip),
     hw |-> Touch(c.hw, ip)]

\* faulty variant: one set of counters for all callers
WindowOwnerShared(client_ip) == Client1
\* the key of the outer dicts under which a caller's counts are kept
WindowOwner(client_ip) == client_ip

\* the end of check_rate_limit: on an admitted call the three counters of the
\* caller are incremented; c is the limiter after the cleanup, v the verdict
Counted(ip, current_time, c, v) ==
    [allowed |-> v.allowed, reason |-> v.reason, headers |-> v.headers,
     lc |-> c.lc,
     sw |-> IF v.allowed THEN Increment(c.sw, ip, current_time) ELSE Touch(c.sw, ip),
     mw |-> IF v.allowed THEN Increment(c.mw, ip, current_time \div SecPerMinute)
            ELSE Touch(c.mw, ip),
     hw |-> IF v.allowed THEN Increment(c.hw, ip, current_time \div SecPerHour)
            ELSE Touch(c.hw, ip)]

\* check_rate_limit after the cleanup: the three counts of the caller are
\* read and tested
Checked(ip, is_chat, cfg, current_time, c) ==
    Counted(ip, current_time, c,
            Verdict(cfg, is_chat, current_time,
                    Get(c.sw, ip, current_time),
                    Get(c.mw, ip, current_time \div SecPerMinute),
                    Get(c.hw, ip, current_time \div SecPerHour)))

\* check_rate_limit(client_ip, is_chat, config) called at current_time on a
\* limiter in state (lc, sw, mw, hw): its return value and the limiter's
\* state after it
CheckRateLimit(client_ip, is_chat, cfg, current_time, lc, sw, mw, hw) ==
    Checked(WindowOwner(client_ip), is_chat, cfg, current_time,
            Cleanup(current_time, lc, sw, mw, hw))

\* ------------------------------------------------------ RateLimitMiddleware
\* str.endswith
EndsWith(s, suffix) ==
    /\ Len(s) >= Len(suffix)
    /\ SubSeq(s, Len(s) - Len(suffix) + 1, Len(s)) = suffix

\* substring in string
Contains(s, sub) ==
    \E i \in 1..(Len(s) - Len(sub) + 1) : SubSeq(s, i, i + Len(sub) - 1) = sub

\* session_management_paths
SessionManagementPaths ==
    { <<"/","s","e","s","s","i","o","n","s">>,
      <<"/","n","e","w","-","s","e","s","s","i","o","n">>,
      <<"/","s","w","i","t","c","h">>,
      <<"/","c","l","e","a","r">> }

\* faulty variant: the session management paths are not looked for
IsChatAnyPost(path, method) == EndsWith(path, ChatPath) /\ method = "POST"

\* is_chat of dispatch
IsChat(path, method) ==
    LET is_session_operation == \E p \in SessionManagementPaths : Contains(path, p)
    IN  EndsWith(path, ChatPath) /\ method = "POST" /\ ~is_session_operation

\* where a request comes from: the addresses listed in X-Forwarded-For (none
\* when the header is absent or empty), X-Real-IP ("" when absent) and the
\* peer address (none when request.client is None); the three ways in which
\* a request is one of Client1
Origins ==
    { [forwarded |-> <<Client1, Client2>>, real_ip |-> "", client |-> <<Client2>>],
      [forwarded |-> <<>>, real_ip |-> Client1, client |-> <<Client2>>],
      [forwarded |-> <<>>, real_ip |-> "", client |-> <<Client1>>] }

\* the paths and methods requested
Routes ==
    { [path |-> HealthPath, method |-> "GET"],
      [path |-> ChatPath, method |-> "POST"],
      [path |-> ChatPath, method |-> "GET"],
      [path |-> ClearPath, method |-> "POST"] }

\* the requests sent
Requests ==
    { [path |-> r.path, method |-> r.method, forwarded |-> o.forwarded,
       real_ip |-> o.real_ip, client |-> o.client] : r \in Routes, o \in Origins }

\* _get_client_ip
ClientIp(request) ==
    IF request.forwarded # <<>> THEN request.forwarded[1]
    ELSE IF request.real_ip # "" THEN request.real_ip
    ELSE IF request.client # <<>> THEN request.client[1]
    ELSE "unknown"

\* statuses with which a route handler answers
HandlerStatuses == {200, 500}

\* the response call_next(request) returns
HandlerResponse(path, status) ==
    [path |-> path, status |-> status, forwarded |-> TRUE,
     body |-> [error |-> "", detail |-> "", type |-> ""],
     headers |-> [h \in {"content-type"} |-> "application/json"]]

\* faulty variant: the limit headers are not copied
SetHeadersRemainingOnly(response, headers) ==
    [response EXCEPT !.headers =
        [h \in DOMAIN response.headers
                \cup (DOMAIN headers \ {LimitMinuteHeader, LimitHourHeader}) |->
            IF h \in DOMAIN headers THEN ToString(headers[h]) ELSE response.headers[h]]]
\* for key, value in headers.items(): response.headers[key] = str(value)
SetHeaders(response, headers) ==
    [response EXCEPT !.headers =
        [h \in DOMAIN response.headers \cup DOMAIN headers |->
            IF h \in DOMAIN headers THEN ToString(headers[h]) ELSE response.headers[h]]]

\* the JSONResponse built when the limiter denies
DenialResponse(path, reason) ==
    [path |-> path, status |-> TooManyRequests, forwarded |-> FALSE,
     body |-> [error |-> "rate_limit_exceeded", detail |-> reason, type |-> "TooManyRequests"],
     headers |-> [h \in {"content-type"} |-> "application/json"]]

\* faulty variant: no path is exempt
IsExemptNever(path, cfg) == FALSE
\* whether dispatch skips the limiter for this path
IsExempt(path, cfg) == path \in cfg.exempt_paths

\* ------------------------------------------------------------------ history
Min(a, b) == IF a <= b THEN a ELSE b

\* the history of a client that has made no call in the current windows
NoAdmitted == [s |-> 0, m |-> 0, h |-> 0]
NoCalls == [n |-> 0, plain |-> TRUE]
NoReported == [k \in BOOLEAN |-> [m |-> <<>>, h |-> <<>>]]

\* the history after a call by client_ip that returned r
AdmittedAfter(client_ip, r) ==
    [admitted EXCEPT ![client_ip] =
        IF r.allowed THEN [s |-> @.s + 1, m |-> @.m + 1, h |-> @.h + 1] ELSE @]

\* calls in the current minute (counted up to MaxLimit + 1), and whether all of
\* them were non-chat calls made while fewer than max_burst calls were admitted
\* in the second and fewer than requests_per_hour in the hour
CallsAfter(client_ip, is_chat) ==
    [calls EXCEPT ![client_ip] =
        [n |-> Min(@.n + 1, MaxLimit + 1),
         plain |-> /\ @.plain
                   /\ ~is_chat
                   /\ admitted[client_ip].s < config.max_burst
                   /\ admitted[client_ip].h < config.requests_per_hour]]

ReportedAfter(client_ip, is_chat, r) ==
    [reported EXCEPT ![client_ip][is_chat] =
        IF r.allowed THEN [m |-> <<r.headers[RemainingMinuteHeader]>>,
                           h |-> <<r.headers[RemainingHourHeader]>>]
        ELSE @]

RetryAfterCall(client_ip, is_chat, r) ==
    [retry EXCEPT ![client_ip] =
        IF ~r.allowed /\ RetryAfterHeader \in DOMAIN r.headers
        THEN <<[at |-> now + r.headers[RetryAfterHeader], is_chat |-> is_chat]>>
        ELSE <<>>]

\* the history when the clock moves to t: counts of windows that have ended
\* are dropped
HistoryAt(t) ==
    LET same_minute == t \div SecPerMinute = now \div SecPerMinute
        same_hour == t \div SecPerHour = now \div SecPerHour
    IN  /\ admitted' = [c \in Clients |->
                           [s |-> IF t = now THEN admitted[c].s ELSE 0,
                            m |-> IF same_minute THEN admitted[c].m ELSE 0,
                            h |-> IF same_hour THEN admitted[c].h ELSE 0]]
        /\ calls' = [c \in Clients |-> IF same_minute THEN calls[c] ELSE NoCalls]
        /\ reported' = [c \in Clients |-> [k \in BOOLEAN |->
                           [m |-> IF same_minute THEN reported[c][k].m ELSE <<>>,
                            h |-> IF same_hour THEN reported[c][k].h ELSE <<>>]]]
        /\ retry' = [c \in Clients |->
                        IF retry[c] # <<>> /\ retry[c][1].at < t THEN <<>> ELSE retry[c]]

\* ------------------------------------------------------------------ actions
\* RateLimiter() constructed at time 0, and no call made yet
InitLimiter ==
    /\ now = 0
    /\ last_cleanup = now
    /\ second_windows = EmptyDict
    /\ minute_windows = EmptyDict
    /\ hour_windows = EmptyDict
    /\ last = None
    /\ resp = None
    /\ admitted = [c \in Clients |-> NoAdmitted]
    /\ calls = [c \in Clients |-> NoCalls]
    /\ reported = [c \in Clients |-> NoReported]
    /\ retry = [c \in Clients |-> <<>>]
    /\ solo = [lc |-> now, sw |-> EmptyDict, mw |-> EmptyDict, hw |-> EmptyDict,
               result |-> None]

\* no request has entered dispatch
InitLoop ==
    /\ inflight = <<>>
    /\ served = 0
    /\ arrived = 0
    /\ granted = [s |-> <<>>, m |-> <<>>, h |-> <<>>]

\* the tables after init_db(): created and empty
InitStore ==
    /\ sessions = <<>>
    /\ messages = {}
    /\ clock = 0
    /\ issued = 0
    /\ reply = None
    /\ log = <<>>

\* the threads that may call check_rate_limit
Threads == {1, 2}

\* a thread outside check_rate_limit
Idle == [pc |-> "idle", is_chat |-> FALSE, counts |-> [s |-> 0, m |-> 0, h |-> 0],
         allowed |-> FALSE, reason |-> "", loaded |-> 0]

\* no thread has called yet
InitRace ==
    /\ threads = [i \in Threads |-> Idle]
    /\ passed = 0
    /\ started = 0

\* the statuses under which send_message counts a gateway request
Outcomes == {"success", "timeout", "http_error", "error"}

\* ChatHistoryService.__init__: one empty session, which is current (uuid4
\* values are numbered in the order they are made); no gateway request counted
InitApart ==
    /\ service = [sessions |-> (1 :> <<>>), current_session_id |-> 1, minted |-> 1]
    /\ asked = [calls |-> 0, latest |-> None]
    /\ gateway = [requests |-> [o \in Outcomes |-> 0], calls |-> 0, latest |-> None]

\* the histories and the reference limiter before any call
InitMore ==
    /\ chats = [m |-> <<>>, h |-> <<>>]
    /\ stamps = <<>>
    /\ reference = [sw |-> EmptyDict, mw |-> EmptyDict, hw |-> EmptyDict, result |-> None]
    /\ InitRace
    /\ InitApart

Init ==
    /\ config \in RateLimitConfig
    /\ InitLimiter
    /\ InitLoop
    /\ probe = None
    /\ InitStore
    /\ InitMore

\* the clock advances
Tick ==
    \E t \in Times :
        /\ t > now
        /\ now' = t
        /\ last' = None
        /\ resp' = None
        /\ HistoryAt(t)
        /\ solo' = [solo EXCEPT !.result = None]
        /\ UNCHANGED <<config, limiter, rest>>

\* the record of a call: its arguments, its return value and the history
\* before it
CallRecord(client_ip, is_chat, r) ==
    [client |-> client_ip, is_chat |-> is_chat, time |-> now,
     allowed |-> r.allowed, reason |-> r.reason, headers |-> r.headers,
     before |-> admitted[client_ip], prior |-> reported[client_ip],
     owed |-> retry[client_ip]]

\* the limiter after check_rate_limit(client_ip, is_chat, config) returned r
Called(client_ip, is_chat, r) ==
    /\ last_cleanup' = r.lc
    /\ second_windows' = r.sw
    /\ minute_windows' = r.mw
    /\ hour_windows' = r.hw
    /\ last' = CallRecord(client_ip, is_chat, r)

\* the history after a call that returned r
Recorded(client_ip, is_chat, r) ==
    /\ admitted' = AdmittedAfter(client_ip, r)
    /\ calls' = CallsAfter(client_ip, is_chat)
    /\ reported' = ReportedAfter(client_ip, is_chat, r)
    /\ retry' = RetryAfterCall(client_ip, is_chat, r)

\* check_rate_limit on the limiter as it is now
CheckNow(client_ip, is_chat) ==
    CheckRateLimit(client_ip, is_chat, config, now, last_cleanup,
                   second_windows, minute_windows, hour_windows)

\* a direct call of check_rate_limit
Check(client_ip, is_chat) ==
    /\ Called(client_ip, is_chat, CheckNow(client_ip, is_chat))
    /\ Recorded(client_ip, is_chat, CheckNow(client_ip, is_chat))
    /\ UNCHANGED <<now, config, resp, solo, rest>>

Next ==
    \/ Tick
    \/ \E k \in BOOLEAN : Check(Client1, k)

Spec == Init /\ [][Next]_vars

\* ------------------------------------------------- requests through dispatch
\* RateLimitMiddleware.dispatch for a request on an exempt path
DispatchExempt(request, status) ==
    /\ IsExempt(request.path, config)
    /\ resp' = HandlerResponse(request.path, status)
    /\ last' = None
    /\ UNCHANGED <<now, config, limiter, history, solo, rest>>

\* the response of dispatch once check_rate_limit returned r
Responded(request, status, r) ==
    resp' = IF ~r.allowed
            THEN SetHeaders(DenialResponse(request.path, r.reason), r.headers)
            ELSE SetHeaders(HandlerResponse(request.path, status), r.headers)

\* dispatch from the call of check_rate_limit on
Limited(request, status, client_ip, is_chat, r) ==
    /\ Called(client_ip, is_chat, r)
    /\ Responded(request, status, r)

\* RateLimitMiddleware.dispatch for any other request
DispatchLimited(request, status) ==
    /\ ~IsExempt(request.path, config)
    /\ Limited(request, status, ClientIp(request), IsChat(request.path, request.method),
               CheckNow(ClientIp(request), IsChat(request.path, request.method)))
    /\ UNCHANGED <<now, config, history, solo, rest>>

NextHttp ==
    \/ Tick
    \/ \E request \in Requests, status \in HandlerStatuses : DispatchExempt(request, status)
    \/ \E request \in Requests, status \in HandlerStatuses : DispatchLimited(request, status)

SpecHttp == Init /\ [][NextHttp]_vars

\* ------------------------------------------- requests in flight on one loop
\* dispatch is a coroutine: it runs without interruption from its entry to
\* "await call_next(request)" (or to the return of the 429), and again from
\* the return of call_next to its own return; the handlers suspended in
\* between are resumed in any order.

\* the requests sent: an exempt one, a chat one, a session management one
LoopRequests ==
    { q \in Requests : /\ q.forwarded = <<>>
                       /\ q.real_ip = ""
                       /\ q.method = (IF q.path = HealthPath THEN "GET" ELSE "POST") }

\* faulty variant: call_next is reached whatever the limiter said
ForwardedAlways(r) == TRUE
\* "if not allowed: ... return response" is not taken
Forwarded(r) == r.allowed

\* history: one more admitted request of client_ip in bucket key
Tally(counts, client_ip, key) ==
    IF <<client_ip, key>> \in DOMAIN counts
    THEN [counts EXCEPT ![<<client_ip, key>>] = @ + 1]
    ELSE [b \in DOMAIN counts \cup {<<client_ip, key>>} |->
             IF b = <<client_ip, key>> THEN 1 ELSE counts[b]]

Tallied(counts, client_ip, key) ==
    IF <<client_ip, key>> \in DOMAIN counts THEN counts[<<client_ip, key>>] ELSE 0

\* dispatch of a request on an exempt path, up to its await
ArriveExempt(request) ==
    /\ inflight' = Append(inflight, [path |-> request.path, headers |-> <<>>])
    /\ last' = None
    /\ resp' = None
    /\ UNCHANGED <<limiter, granted>>

\* dispatch of any other request, from the return of check_rate_limit to the
\* await or to the return of the 429
ArriveLimited(request, client_ip, is_chat, r) ==
    /\ Called(client_ip, is_chat, r)
    /\ IF Forwarded(r)
       THEN /\ inflight' = Append(inflight, [path |-> request.path, headers |-> r.headers])
            /\ resp' = None
       ELSE /\ resp' = SetHeaders(DenialResponse(request.path, r.reason), r.headers)
            /\ inflight' = inflight
    /\ granted' = IF r.allowed
                  THEN [s |-> Tally(granted.s, client_ip, now),
                        m |-> Tally(granted.m, client_ip, now \div SecPerMinute),
                        h |-> Tally(granted.h, client_ip, now \div SecPerHour)]
                  ELSE granted

\* a request enters dispatch
Arrive(request) ==
    /\ arrived < MaxRequests
    /\ arrived' = arrived + 1
    /\ IF IsExempt(request.path, config)
       THEN ArriveExempt(request)
       ELSE ArriveLimited(request, ClientIp(request),
                          IsChat(request.path, request.method),
                          CheckNow(ClientIp(request), IsChat(request.path, request.method)))
    /\ UNCHANGED <<now, config, served, history, solo, probe, store, more>>

\* a sequence without its i-th element
Without(seq, i) == SubSeq(seq, 1, i - 1) \o SubSeq(seq, i + 1, Len(seq))

\* the handler of the i-th suspended request returns and dispatch goes on to
\* its end
Resume(i, status) ==
    /\ served' = served + 1
    /\ resp' = IF inflight[i].headers = <<>>
               THEN HandlerResponse(inflight[i].path, status)
               ELSE SetHeaders(HandlerResponse(inflight[i].path, status), inflight[i].headers)
    /\ inflight' = Without(inflight, i)
    /\ last' = None
    /\ UNCHANGED <<now, config, limiter, arrived, granted, history, solo, probe, store, more>>

\* the instants at which the loop reads the clock
LoopTimes == {0, 1, 60, 3600}

\* the clock advances while requests are in flight
LoopTick ==
    \E t \in LoopTimes :
        /\ t > now
        /\ now' = t
        /\ last' = None
        /\ resp' = None
        /\ UNCHANGED <<config, limiter, history, solo, rest>>

NextLoop ==
    \/ LoopTick
    \/ \E request \in LoopRequests : Arrive(request)
    \/ \E i \in 1..Len(inflight), status \in HandlerStatuses : Resume(i, status)

\* the configurations of the loop: one hour ceiling for both classes
LoopConfigs ==
    { c \in RateLimitConfig : c.chat_requests_per_hour = c.requests_per_hour }

InitLoopSpec ==
    /\ config \in LoopConfigs
    /\ InitLimiter
    /\ InitLoop
    /\ probe = None
    /\ InitStore
    /\ InitMore

SpecLoop == InitLoopSpec /\ [][NextLoop]_vars

\* ------------------------------------------------- classification of requests
\* the parts of the paths of the chat router (prefix "/api" + "/chat")
HistoryPart == <<"/","h","i","s","t","o","r","y">>
ClearPart == <<"/","c","l","e","a","r">>
NewSessionPart == <<"/","n","e","w","-","s","e","s","s","i","o","n">>
SessionsPart == <<"/","s","e","s","s","i","o","n","s">>
SwitchPart == <<"/","s","w","i","t","c","h">>
StatsPart == <<"/","s","t","a","t","s">>
\* a session id in a path
IdPart == <<"/","u","1">>

\* the routes the application registers, exempt ones aside
SurfaceRoutes ==
    { [path |-> <<"/">>, method |-> "GET"],
      [path |-> ModelsPath, method |-> "GET"],
      [path |-> ChatPath, method |-> "POST"],
      [path |-> ChatPath \o HistoryPart, method |-> "GET"],
      [path |-> ChatPath \o ClearPart, method |-> "POST"],
      [path |-> ChatPath \o NewSessionPart, method |-> "POST"],
      [path |-> ChatPath \o SessionsPart, method |-> "GET"],
      [path |-> ChatPath \o SessionsPart \o IdPart \o SwitchPart, method |-> "POST"],
      [path |-> ChatPath \o SessionsPart \o IdPart, method |-> "DELETE"],
      [path |-> ChatPath \o SessionsPart \o IdPart \o StatsPart, method |-> "GET"],
      [path |-> ChatPath \o SessionsPart \o IdPart, method |-> "PATCH"] }

\* paths no route is registered for, which dispatch classifies all the same
OtherPaths ==
    { ChatPath \o <<"/">>,
      <<"/","v","1">> \o ChatPath,
      <<"/","c","h","a","t">>,
      ClearPart \o ChatPath,
      SessionsPart \o ChatPath,
      NewSessionPart \o ChatPath,
      SwitchPart \o IdPart \o ChatPath }

Methods == {"GET", "POST", "DELETE", "PATCH", "PUT"}

\* the requests classified: every method on every path
Probes ==
    { [path |-> q, method |-> m, classified |-> FALSE, is_chat |-> FALSE,
       minute_limit |-> 0, hour_limit |-> 0] :
          q \in {r.path : r \in SurfaceRoutes} \cup OtherPaths, m \in Methods }

\* dispatch from "client_ip = ..." to the ceilings check_rate_limit picks for
\* the request
Classified(q, is_chat) ==
    [q EXCEPT !.classified = TRUE, !.is_chat = is_chat,
              !.minute_limit = MinuteLimit(config, is_chat),
              !.hour_limit = HourLimit(config, is_chat)]

Classify ==
    /\ ~probe.classified
    /\ ~IsExempt(probe.path, config)
    /\ probe' = Classified(probe, IsChat(probe.path, probe.method))
    /\ UNCHANGED <<now, config, limiter, last, resp, history, solo, loop, store, more>>

InitClassify ==
    /\ config \in RateLimitConfig
    /\ InitLimiter
    /\ InitLoop
    /\ probe \in Probes
    /\ InitStore
    /\ InitMore

NextClassify == Classify

SpecClassify == InitClassify /\ [][NextClassify]_vars

\* ------------------------------------------------------- the chat sessions
\* The handlers of routers/chat_db.py on the tables chat_sessions and
\* messages. A request is one transaction (get_db): committed when the
\* handler returns, rolled back when it raises. Every request gets a
\* ChatHistoryDBService of its own (get_chat_history_service), whose
\* _current_session_id starts as None. Requests are served one at a time.
\* Session ids are numbered in the order uuid4 produces them; texts are
\* sequences of characters.

\* uuid values: those of the sessions that can be created, and one more
Uuids == 1..(MaxSessions + 1)

\* str(uuid)
Str(id) == "u" \o ToString(id)
\* the texts uuid.UUID() accepts for id: it ignores case
Texts(id) == {Str(id), "U" \o ToString(id)}

\* the session_id values sent: none (<<>>), the empty text, a text that is no
\* uuid, the text str() gives for each uuid, and the first uuid in upper case
Args == {<<>>, <<"">>, <<"zz">>} \cup {<<Str(id)>> : id \in Uuids} \cup {<<t>> : t \in Texts(1)}
\* a path parameter is never absent or empty
PathArgs == Args \ {<<>>, <<"">>}

\* parse_session_id: <<>> for None
ParseSessionId(arg) ==
    IF arg = <<>> \/ arg[1] = "" THEN <<>>
    ELSE IF \E id \in Uuids : arg[1] \in Texts(id)
         THEN <<CHOOSE id \in Uuids : arg[1] \in Texts(id)>>
         ELSE <<>>

DefaultTitle == <<"Y","e","n","i"," ","S","o","h","b","e","t">>
\* the message users send, and the answer of the gateway
UserContents == {<<"h","i">>}
Answer == <<"o","k">>

\* content[:50] + ("..." if len(content) > 50 else "")
TitleOf(content) ==
    IF Len(content) > TitleLimit
    THEN SubSeq(content, 1, TitleLimit) \o <<".",".",".">>
    ELSE content

\* a table keyed by id: insert or replace a row, delete a row
Put(table, id, row) ==
    [k \in DOMAIN table \cup {id} |-> IF k = id THEN row ELSE table[k]]
Drop(table, id) == [k \in DOMAIN table \ {id} |-> table[k]]

\* the database inside a transaction: the two tables, the clock, the ids
\* produced
Database == [sessions |-> sessions, messages |-> messages, clock |-> clock, issued |-> issued]

\* ChatHistoryDBService.create_session on db: the row is inserted under a
\* fresh id, which becomes the current session; of the columns of a session
\* the row keeps the one the handlers read, its title
CreateSession(db, title) ==
    [db EXCEPT !.issued = @ + 1,
               !.sessions = Put(@, db.issued + 1,
                                [title |-> title])]
\* the id create_session gave the session
Created(db) == db.issued + 1

\* ChatHistoryDBService.get_session
GetSession(db, id) == IF id \in DOMAIN db.sessions THEN <<id>> ELSE <<>>

\* ChatHistoryDBService.get_or_create_session: the database after it
GetOrCreateSession(db, sid) ==
    IF sid # <<>> /\ GetSession(db, sid[1]) # <<>> THEN db
    ELSE CreateSession(db, DefaultTitle)
\* and the id of the session it returns
GotOrCreated(db, sid) ==
    IF sid # <<>> /\ GetSession(db, sid[1]) # <<>> THEN sid[1] ELSE Created(db)

\* ChatHistoryDBService.add_message with session_id given: the row is
\* inserted at the next instant, and the first user message becomes the
\* title of a session that has the default one
AddMessage(db, role, content, id) ==
    LET at == db.clock + 1
        titled == role = "user" /\ id \in DOMAIN db.sessions
                      /\ db.sessions[id].title = DefaultTitle
    IN  [db EXCEPT !.clock = at,
                   !.messages = @ \cup {[session_id |-> id, role |-> role,
                                         content |-> content, created_at |-> at]},
                   !.sessions = IF id \in DOMAIN db.sessions
                                THEN [@ EXCEPT ![id] =
                                         [title |-> IF titled THEN TitleOf(content)
                                                    ELSE @.title]]
                                ELSE @]

\* rows in the order of created_at
RECURSIVE Ordered(_)
Ordered(rows) ==
    IF rows = {} THEN <<>>
    ELSE LET first == CHOOSE m \in rows : \A o \in rows : m.created_at <= o.created_at
         IN  <<first>> \o Ordered(rows \ {first})

\* faulty variant: the rows of every session
RowsOfAny(rows, id) == rows
\* the rows select(Message).where(Message.session_id == sid) finds
RowsOf(rows, id) == {m \in rows : m.session_id = id}

\* ChatHistoryDBService.get_history with session_id given
GetHistory(rows, id) == Ordered(RowsOf(rows, id))

\* the messages as a handler returns them
Shown(found) == [i \in 1..Len(found) |->
                    [role |-> found[i].role, content |-> found[i].content]]

\* faulty variant: the foreign key is not enforced
CascadeOff(rows, id) == rows
\* ON DELETE CASCADE of messages.session_id: the rows that stay when the
\* session is deleted
Cascade(rows, id) == rows \ RowsOf(rows, id)

\* ChatHistoryDBService.get_session_stats: {} without a session id, the
\* aggregates over the rows of the session otherwise
GetSessionStats(db, sid) ==
    IF sid = <<>> THEN <<>>
    ELSE <<[session_id |-> Str(sid[1]),
            total_messages |-> Cardinality(RowsOf(db.messages, sid[1])),
            user_messages |->
                Cardinality({m \in RowsOf(db.messages, sid[1]) : m.role = "user"}),
            assistant_messages |->
                Cardinality({m \in RowsOf(db.messages, sid[1]) : m.role = "assistant"})]>>

\* session.commit() / session.rollback() of get_db
Commit(db) ==
    /\ sessions' = db.sessions
    /\ messages' = db.messages
    /\ clock' = db.clock
    /\ issued' = db.issued
Rollback == UNCHANGED <<sessions, messages, clock, issued>>

\* what a handler answers; the fields a handler does not return are empty
Reply(op, arg, status, session_id, shown, deleted_count, success) ==
    [op |-> op, arg |-> arg, status |-> status, session_id |-> session_id,
     messages |-> shown, count |-> Len(shown), deleted_count |-> deleted_count,
     success |-> success]
Raised(op, arg, status) == Reply(op, arg, status, "", <<>>, 0, FALSE)

\* history: nothing was added to a session yet
NoLog == [sends |-> 0, added |-> <<>>]
\* history: the log of the sessions that exist after a request
LogOf(after, base) ==
    [id \in DOMAIN after |-> IF id \in DOMAIN base THEN base[id] ELSE NoLog]

\* POST /api/chat once the gateway has answered: db is the database after the
\* user message was added to session id
SendAnswered(arg, content, id, db) ==
    /\ Commit(AddMessage(db, "assistant", Answer, id))
    /\ reply' = Reply("send", arg, 200, Str(id),
                      <<[role |-> "assistant", content |-> Answer]>>, 0, TRUE)
    /\ log' = [LogOf(db.sessions, log) EXCEPT ![id] =
                  [sends |-> @.sends + 1,
                   added |-> @.added \o <<[role |-> "user", content |-> content],
                                          [role |-> "assistant", content |-> Answer]>>]]

\* faulty variant: what the request has flushed is kept
AbortedKept(db) == db
\* session.rollback() of get_db on a transaction that has made the database
\* db: the tables are as they were when the request came in
Aborted(db) == Database

\* POST /api/chat when openrouter_service.send_message raises: db is the
\* database after the user message was added; the handler raises
\* HTTPException(500), which get_db answers with a rollback
SendFailed(arg, db) ==
    /\ Commit(Aborted(db))
    /\ reply' = Raised("send", arg, ServerError)
    /\ log' = log

\* send_chat_message from get_or_create_session on
SendIn(arg, content, answered, sid, db) ==
    /\ db.issued <= MaxSessions
    /\ IF answered
       THEN SendAnswered(arg, content, GotOrCreated(Database, sid),
                         AddMessage(db, "user", content, GotOrCreated(Database, sid)))
       ELSE SendFailed(arg, AddMessage(db, "user", content, GotOrCreated(Database, sid)))

\* POST /api/chat
Send(arg, content, answered) ==
    /\ clock + 2 <= MaxInserts
    /\ SendIn(arg, content, answered, ParseSessionId(arg),
              GetOrCreateSession(Database, ParseSessionId(arg)))
    /\ UNCHANGED <<now, config, limiter, last, resp, history, solo, loop, probe, more>>

\* get_chat_history once the session is settled: 200 with its messages
HistoryShown(arg, id, db) ==
    /\ Commit(db)
    /\ reply' = Reply("history", arg, 200, Str(id), Shown(GetHistory(db.messages, id)),
                      0, TRUE)
    /\ log' = LogOf(db.sessions, log)

\* get_chat_history from "if sid:" on
HistoryIn(arg, sid) ==
    IF sid # <<>>
    THEN IF GetSession(Database, sid[1]) = <<>>
         THEN /\ Rollback
              /\ reply' = Raised("history", arg, NotFound)
              /\ log' = log
         ELSE HistoryShown(arg, sid[1], Database)
    ELSE \* chat_service.current_session_id is None in a new service
         /\ issued < MaxSessions
         /\ HistoryShown(arg, Created(Database), CreateSession(Database, DefaultTitle))

\* GET /api/chat/history
History(arg) ==
    /\ HistoryIn(arg, ParseSessionId(arg))
    /\ UNCHANGED <<now, config, limiter, last, resp, history, solo, loop, probe, more>>

\* faulty variant: clear_history deletes the user's messages only
ClearedUserOnly(rows, id) == {m \in RowsOf(rows, id) : m.role = "user"}
\* the rows delete(Message).where(Message.session_id == sid) deletes
Cleared(rows, id) == RowsOf(rows, id)

\* clear_chat_history from "if not sid:" on; the current session of a new
\* service is None, so sid is what parse_session_id returned
ClearIn(arg, sid) ==
    IF sid = <<>>
    THEN /\ Rollback
         /\ reply' = Reply("clear", arg, 200, "", <<>>, 0, FALSE)
         /\ log' = log
    ELSE /\ messages' = messages \ Cleared(messages, sid[1])
         /\ UNCHANGED <<sessions, clock, issued>>
         /\ reply' = Reply("clear", arg, 200, Str(sid[1]), <<>>,
                           Cardinality(Cleared(messages, sid[1])), TRUE)
         /\ log' = [id \in DOMAIN log |-> IF id = sid[1] THEN NoLog ELSE log[id]]

\* POST /api/chat/clear
Clear(arg) ==
    /\ ClearIn(arg, ParseSessionId(arg))
    /\ UNCHANGED <<now, config, limiter, last, resp, history, solo, loop, probe, more>>

\* the titles sent to new-session: none, or one
Titles == {<<>>, <<<<"t">>>>}

\* POST /api/chat/new-session
NewSession(title) ==
    /\ issued < MaxSessions
    /\ Commit(CreateSession(Database, IF title = <<>> THEN DefaultTitle ELSE title[1]))
    /\ reply' = Reply("new-session", title, 200, Str(Created(Database)), <<>>, 0, TRUE)
    /\ log' = LogOf(sessions', log)
    /\ UNCHANGED <<now, config, limiter, last, resp, history, solo, loop, probe, more>>

\* switch_session from "if not sid:" on
SwitchIn(arg, sid) ==
    reply' = IF sid = <<>> THEN Raised("switch", arg, BadRequest)
             ELSE IF GetSession(Database, sid[1]) = <<>>
                  THEN Raised("switch", arg, NotFound)
                  ELSE Reply("switch", arg, 200, arg[1],
                             Shown(GetHistory(messages, sid[1])), 0, TRUE)

\* POST /api/chat/sessions/{session_id}/switch
Switch(arg) ==
    /\ SwitchIn(arg, ParseSessionId(arg))
    /\ Rollback
    /\ log' = log
    /\ UNCHANGED <<now, config, limiter, last, resp, history, solo, loop, probe, more>>

\* delete_session from "if not sid:" on; the service is new, so the deleted
\* session is never its current one and no session is created in its place
DeleteIn(arg, sid) ==
    IF sid = <<>>
    THEN /\ Rollback
         /\ reply' = Raised("delete", arg, BadRequest)
         /\ log' = log
    ELSE IF sid[1] \notin DOMAIN sessions
         THEN /\ Rollback
              /\ reply' = Raised("delete", arg, NotFound)
              /\ log' = log
         ELSE /\ sessions' = Drop(sessions, sid[1])
              /\ messages' = Cascade(messages, sid[1])
              /\ UNCHANGED <<clock, issued>>
              /\ reply' = Reply("delete", arg, 200, arg[1], <<>>, 0, TRUE)
              /\ log' = LogOf(sessions', log)

\* DELETE /api/chat/sessions/{session_id}
Delete(arg) ==
    /\ DeleteIn(arg, ParseSessionId(arg))
    /\ UNCHANGED <<now, config, limiter, last, resp, history, solo, loop, probe, more>>

\* get_session_stats (the handler) from "if not stats:" on
StatsIn(arg, stats) ==
    reply' = IF stats = <<>> THEN Raised("stats", arg, NotFound)
             ELSE [Reply("stats", arg, 200, stats[1].session_id, <<>>, 0, TRUE)
                      EXCEPT !.count = stats[1].total_messages]

\* GET /api/chat/sessions/{session_id}/stats
Stats(arg) ==
    /\ IF ParseSessionId(arg) = <<>>
       THEN reply' = Raised("stats", arg, BadRequest)
       ELSE StatsIn(arg, GetSessionStats(Database, ParseSessionId(arg)))
    /\ Rollback
    /\ log' = log
    /\ UNCHANGED <<now, config, limiter, last, resp, history, solo, loop, probe, more>>

\* the configuration while the store is looked at: the limiter plays no part
StoreConfig == CHOOSE c \in RateLimitConfig : c.max_burst = MaxBurst

InitStoreSpec ==
    /\ config = StoreConfig
    /\ InitLimiter
    /\ InitLoop
    /\ probe = None
    /\ InitStore
    /\ InitMore

NextStore ==
    \/ \E arg \in Args, content \in UserContents, answered \in BOOLEAN :
           Send(arg, content, answered)
    \/ \E arg \in Args : History(arg)
    \/ \E arg \in Args : Clear(arg)
    \/ \E title \in Titles : NewSession(title)
    \/ \E arg \in PathArgs : Switch(arg)
    \/ \E arg \in PathArgs : Delete(arg)
    \/ \E arg \in PathArgs : Stats(arg)

SpecStore == InitStoreSpec /\ [][NextStore]_vars

\* ------------------------------------------------ two clients on one limiter
\* a call on the shared limiter; a call of Client2 is also made on the limiter
\* that sees no other client
SoloCalled(a) ==
    solo' = [lc |-> a.lc, sw |-> a.sw, mw |-> a.mw, hw |-> a.hw,
             result |-> [allowed |-> a.allowed, reason |-> a.reason, headers |-> a.headers]]

\* the shared limiter after a call that returned r; only Client2's calls are
\* observed
PairCalled(client_ip, is_chat, r) ==
    /\ last_cleanup' = r.lc
    /\ second_windows' = r.sw
    /\ minute_windows' = r.mw
    /\ hour_windows' = r.hw
    /\ last' = IF client_ip = Client2 THEN CallRecord(client_ip, is_chat, r) ELSE None

PairCheck(client_ip, is_chat) ==
    /\ PairCalled(client_ip, is_chat, CheckNow(client_ip, is_chat))
    /\ IF client_ip = Client2
       THEN SoloCalled(CheckRateLimit(client_ip, is_chat, config, now, solo.lc,
                                      solo.sw, solo.mw, solo.hw))
       ELSE solo' = [solo EXCEPT !.result = None]
    /\ UNCHANGED <<now, config, resp, history, rest>>

NextPair ==
    \/ Tick
    \/ \E c \in Clients, k \in BOOLEAN : PairCheck(c, k)

SpecPair == Init /\ [][NextPair]_vars

\* ------------------------------------------- admissions by class and instant
\* Direct calls of check_rate_limit by one client, with two histories kept
\* next to the limiter: the chat calls admitted per minute and hour bucket,
\* and the non-chat calls admitted per instant.

\* the histories after a call at the current instant that returned r
Stamped(client_ip, is_chat, r) ==
    /\ chats' = IF r.allowed /\ is_chat
                THEN [m |-> Tally(chats.m, client_ip, now \div SecPerMinute),
                      h |-> Tally(chats.h, client_ip, now \div SecPerHour)]
                ELSE chats
    /\ stamps' = IF r.allowed /\ ~is_chat THEN Tally(stamps, client_ip, now) ELSE stamps

\* check_rate_limit from its return on
QuotaCalled(client_ip, is_chat, r) ==
    /\ Called(client_ip, is_chat, r)
    /\ admitted' = AdmittedAfter(client_ip, r)
    /\ UNCHANGED <<calls, reported, retry>>
    /\ Stamped(client_ip, is_chat, r)

\* a direct call of check_rate_limit
QuotaCheck(client_ip, is_chat) ==
    /\ QuotaCalled(client_ip, is_chat, CheckNow(client_ip, is_chat))
    /\ UNCHANGED <<now, config, resp, solo, loop, probe, store, reference, later>>

NextQuota ==
    \/ Tick
    \/ \E k \in BOOLEAN : QuotaCheck(Client1, k)

InitQuota ==
    /\ config \in LoopConfigs
    /\ InitLimiter
    /\ InitLoop
    /\ probe = None
    /\ InitStore
    /\ InitMore

SpecQuota == InitQuota /\ [][NextQuota]_vars

\* ------------------------------------------------- buckets kept and deleted
\* Direct calls of check_rate_limit at instants close enough for buckets to
\* pile up between two cleanup passes.

\* the instants at which the clock is read: three consecutive seconds, an
\* instant in the next minute, two in the minute after, and one two hours on
DenseTimes == {0, 1, 2, 61, 120, 121, 7200}

\* the clock advances
DenseTick ==
    \E t \in DenseTimes :
        /\ t > now
        /\ now' = t
        /\ last' = None
        /\ reference' = [reference EXCEPT !.result = None]
        /\ UNCHANGED <<config, limiter, resp, history, solo, loop, probe, store,
                       chats, stamps, later>>

\* a direct call of check_rate_limit by one of two clients
DenseCheck(client_ip, is_chat) ==
    /\ Called(client_ip, is_chat, CheckNow(client_ip, is_chat))
    /\ UNCHANGED <<now, config, resp, history, solo, rest>>

NextDense ==
    \/ DenseTick
    \/ \E c \in Clients, k \in BOOLEAN : DenseCheck(c, k)

\* the configurations: the ceilings of the two classes differ per minute
DenseConfigs ==
    { c \in LoopConfigs : /\ c.requests_per_minute = MaxLimit
                          /\ c.requests_per_hour = MaxLimit + 1 }

InitDense ==
    /\ config \in DenseConfigs
    /\ InitLimiter
    /\ InitLoop
    /\ probe = None
    /\ InitStore
    /\ InitMore

SpecDense == InitDense /\ [][NextDense]_vars

\* ------------------------------------------------------ a limiter that keeps
\* The calls of one client, given to the limiter and to a reference limiter
\* that never deletes a bucket.

\* what check_rate_limit returns
Returned(r) == [allowed |-> r.allowed, reason |-> r.reason, headers |-> r.headers]

\* check_rate_limit on the reference limiter: the cleanup is left out
ReferenceCheck(client_ip, is_chat) ==
    Checked(WindowOwner(client_ip), is_chat, config, now,
            [lc |-> now, sw |-> reference.sw, mw |-> reference.mw, hw |-> reference.hw])

\* both limiters after the call: r is what the limiter returned, q what the
\* reference limiter returned
BothCalled(client_ip, is_chat, r, q) ==
    /\ Called(client_ip, is_chat, r)
    /\ reference' = [sw |-> q.sw, mw |-> q.mw, hw |-> q.hw, result |-> Returned(q)]

\* a direct call of check_rate_limit, made on both limiters
BothCheck(client_ip, is_chat) ==
    /\ BothCalled(client_ip, is_chat, CheckNow(client_ip, is_chat),
                  ReferenceCheck(client_ip, is_chat))
    /\ UNCHANGED <<now, config, resp, history, solo, loop, probe, store, chats, stamps, later>>

NextBoth ==
    \/ DenseTick
    \/ \E k \in BOOLEAN : BothCheck(Client1, k)

SpecBoth == InitQuota /\ [][NextBoth]_vars

\* ------------------------------------------------ check_rate_limit in threads
\* Two threads of one host call check_rate_limit for the same client with no
\* lock around it. A thread can be suspended between any two statements, and
\* inside "windows[ip][key] += 1" between the load of the count and the store
\* of the sum. The clock stands still while they run.

\* the counts the three tests of a thread are made on: the locals
\* second_count, minute_count, hour_count
ObservedFresh(th) ==
    [s |-> Get(second_windows, Client1, now),
     m |-> Get(minute_windows, Client1, now \div SecPerMinute),
     h |-> Get(hour_windows, Client1, now \div SecPerHour)]
Observed(th) == th.counts

\* windows[ip][key] = value
StoreCount(windows, ip, key, value) ==
    LET w == Touch(windows, ip)
        d == w[ip]
    IN  [w EXCEPT ![ip] = [k \in DOMAIN d \cup {key} |-> IF k = key THEN value ELSE d[k]]]

\* the limiter after the cleanup and the three lookups of a call; c is the
\* limiter after the cleanup
Looked(c) ==
    /\ last_cleanup' = c.lc
    /\ second_windows' = Touch(c.sw, Client1)
    /\ minute_windows' = Touch(c.mw, Client1)
    /\ hour_windows' = Touch(c.hw, Client1)

\* a thread enters check_rate_limit and runs it up to the three counts read
ThreadBegin(i, is_chat) ==
    /\ threads[i].pc = "idle"
    /\ started < MaxCalls
    /\ started' = started + 1
    /\ Looked(Cleanup(now, last_cleanup, second_windows, minute_windows, hour_windows))
    /\ threads' = [threads EXCEPT ![i] =
                      [Idle EXCEPT !.pc = "test", !.is_chat = is_chat,
                                   !.counts = ObservedFresh(threads[i])]]
    /\ UNCHANGED <<now, config, last, resp, history, solo, loop, probe, store,
                   chats, stamps, reference, apart, passed>>

\* the thread after its three tests, which returned v
Tested(i, v) ==
    threads' = [threads EXCEPT ![i] =
                   [@ EXCEPT !.pc = IF v.allowed THEN "load_s" ELSE "done",
                             !.allowed = v.allowed, !.reason = v.reason]]

\* a thread makes the three tests on the counts it has read
ThreadTest(i) ==
    /\ threads[i].pc = "test"
    /\ Tested(i, Verdict(config, threads[i].is_chat, now, Observed(threads[i]).s,
                         Observed(threads[i]).m, Observed(threads[i]).h))
    /\ UNCHANGED <<now, config, limiter, last, resp, history, solo, loop, probe, store,
                   chats, stamps, reference, apart, passed, started>>

\* a thread loads the count it is about to increment
ThreadLoad(i) ==
    /\ threads[i].pc \in {"load_s", "load_m", "load_h"}
    /\ threads' = [threads EXCEPT ![i] =
                      [@ EXCEPT !.pc = CASE @ = "load_s" -> "store_s"
                                         [] @ = "load_m" -> "store_m"
                                         [] @ = "load_h" -> "store_h",
                                !.loaded = CASE threads[i].pc = "load_s" ->
                                                    Get(second_windows, Client1, now)
                                             [] threads[i].pc = "load_m" ->
                                                    Get(minute_windows, Client1,
                                                        now \div SecPerMinute)
                                             [] threads[i].pc = "load_h" ->
                                                    Get(hour_windows, Client1,
                                                        now \div SecPerHour)]]
    /\ UNCHANGED <<now, config, limiter, last, resp, history, solo, loop, probe, store,
                   chats, stamps, reference, apart, passed, started>>

\* a thread stores the count it loaded, plus 1
ThreadStore(i) ==
    /\ threads[i].pc \in {"store_s", "store_m", "store_h"}
    /\ second_windows' = IF threads[i].pc = "store_s"
                         THEN StoreCount(second_windows, Client1, now, threads[i].loaded + 1)
                         ELSE second_windows
    /\ minute_windows' = IF threads[i].pc = "store_m"
                         THEN StoreCount(minute_windows, Client1, now \div SecPerMinute,
                                         threads[i].loaded + 1)
                         ELSE minute_windows
    /\ hour_windows' = IF threads[i].pc = "store_h"
                       THEN StoreCount(hour_windows, Client1, now \div SecPerHour,
                                       threads[i].loaded + 1)
                       ELSE hour_windows
    /\ threads' = [threads EXCEPT ![i] =
                      [@ EXCEPT !.pc = CASE @ = "store_s" -> "load_m"
                                         [] @ = "store_m" -> "load_h"
                                         [] @ = "store_h" -> "done"]]
    /\ UNCHANGED <<now, config, last_cleanup, last, resp, history, solo, loop, probe,
                   store, chats, stamps, reference, apart, passed, started>>

\* a thread returns from check_rate_limit
ThreadReturn(i) ==
    /\ threads[i].pc = "done"
    /\ passed' = IF threads[i].allowed THEN passed + 1 ELSE passed
    /\ threads' = [threads EXCEPT ![i] = Idle]
    /\ UNCHANGED <<now, config, limiter, last, resp, history, solo, loop, probe, store,
                   chats, stamps, reference, apart, started>>

NextThreads ==
    \/ \E i \in Threads, k \in BOOLEAN : ThreadBegin(i, k)
    \/ \E i \in Threads : ThreadTest(i)
    \/ \E i \in Threads : ThreadLoad(i)
    \/ \E i \in Threads : ThreadStore(i)
    \/ \E i \in Threads : ThreadReturn(i)

SpecThreads == InitQuota /\ [][NextThreads]_vars

\* ------------------------------------- the in-memory chat history service
\* services/chat_history.py: ChatHistoryService, the singleton
\* chat_history_service. A session id is the number of the uuid4 call that
\* made it; Foreign is a string that no uuid4 call returns. A session_id
\* argument is <<>> for None (and for "", which "or" treats alike) and <<id>>
\* for an id. A message is kept as its role. No method awaits, so each runs
\* without interleaving on the event loop.
Foreign == 0

\* the ids a caller can name: Foreign and every id made so far, deleted or not
KnownIds(s) == 0 .. s.minted
SessionArgs(s) == {<<>>} \cup {<<id>> : id \in KnownIds(s)}
MessageRoles == {"user", "assistant"}

\* "session_id or self._current_session_id"
Sid(s, session_id) ==
    IF session_id = <<>> THEN s.current_session_id ELSE session_id[1]

\* _create_session: the new id is minted of the result
create_session(s) ==
    [s EXCEPT !.sessions = Put(@, s.minted + 1, <<>>), !.minted = @ + 1]

add_message(s, role, session_id) ==
    LET sid == Sid(s, session_id)
        had == IF sid \in DOMAIN s.sessions THEN s.sessions[sid] ELSE <<>>
    IN  [s EXCEPT !.sessions = Put(@, sid, Append(had, role))]

clear_history(s, session_id) ==
    LET sid == Sid(s, session_id)
    IN  IF sid \in DOMAIN s.sessions
        THEN [s EXCEPT !.sessions = Put(@, sid, <<>>)]
        ELSE s

new_session(s) ==
    LET made == create_session(s)
    IN  [made EXCEPT !.current_session_id = made.minted]

\* switch_session and delete_session: the service afterwards and the value
\* returned
switch_session(s, session_id) ==
    IF session_id \in DOMAIN s.sessions
    THEN [service |-> [s EXCEPT !.current_session_id = session_id], returned |-> TRUE]
    ELSE [service |-> s, returned |-> FALSE]

\* faulty variant: the current session is deleted and stays current
delete_session_only(s, session_id) ==
    IF session_id \in DOMAIN s.sessions
    THEN [service |-> [s EXCEPT !.sessions = Drop(@, session_id)], returned |-> TRUE]
    ELSE [service |-> s, returned |-> FALSE]

delete_session(s, session_id) ==
    IF session_id \in DOMAIN s.sessions
    THEN LET deleted == [s EXCEPT !.sessions = Drop(@, session_id)]
         IN  [service |-> IF session_id = s.current_session_id
                          THEN new_session(deleted)
                          ELSE deleted,
              returned |-> TRUE]
    ELSE [service |-> s, returned |-> FALSE]

\* one call of a method of the service: op, argument, value returned and the
\* session that was current before the call are remembered
ServiceCalled(op, session_id, after, returned) ==
    /\ asked.calls < MaxCalls
    /\ service' = after
    /\ asked' = [calls |-> asked.calls + 1,
                 latest |-> [op |-> op, session_id |-> session_id, returned |-> returned,
                             was |-> service.current_session_id]]
    /\ UNCHANGED <<now, config, limiter, last, resp, history, solo, loop, probe, store,
                   chats, stamps, reference, race, gateway>>

ServiceAdd(role, session_id) ==
    ServiceCalled("add_message", session_id, add_message(service, role, session_id), None)

ServiceClear(session_id) ==
    ServiceCalled("clear_history", session_id, clear_history(service, session_id), None)

ServiceNew ==
    ServiceCalled("new_session", <<>>, new_session(service), None)

ServiceSwitched(session_id, done) ==
    ServiceCalled("switch_session", <<session_id>>, done.service, done.returned)
ServiceSwitch(session_id) == ServiceSwitched(session_id, switch_session(service, session_id))

ServiceDeleted(session_id, done) ==
    ServiceCalled("delete_session", <<session_id>>, done.service, done.returned)
ServiceDelete(session_id) == ServiceDeleted(session_id, delete_session(service, session_id))

NextService ==
    \/ \E role \in MessageRoles, session_id \in SessionArgs(service) :
           ServiceAdd(role, session_id)
    \/ \E session_id \in SessionArgs(service) : ServiceClear(session_id)
    \/ ServiceNew
    \/ \E session_id \in KnownIds(service) : ServiceSwitch(session_id)
    \/ \E session_id \in KnownIds(service) : ServiceDelete(session_id)

SpecService == InitStoreSpec /\ [][NextService]_vars

\* ------------------------------------------------ the gateway request counter
\* services/openrouter.py: OpenRouterService.send_message, and
\* track_openrouter_request of telemetry/metrics.py, which increments
\* OPENROUTER_REQUESTS under the status it is given.
\* What the POST to the gateway can bring: a 200 response with choices, a
\* 200 response without, a non-200 response with a JSON body, a non-200
\* response whose body is not JSON, a timeout, another transport error.
Replies == {"ok", "empty", "status", "undecodable", "timeout", "transport"}

\* the body of the try statement: the statuses it records, in order, and the
\* exception that leaves it, if any (httpx.TimeoutException is an
\* httpx.HTTPError; both are caught before Exception)
TryBody(came) ==
    CASE came = "timeout"     -> [recorded |-> <<>>, raises |-> "TimeoutException"]
      [] came = "transport"   -> [recorded |-> <<>>, raises |-> "HTTPError"]
      [] came = "status"      -> [recorded |-> <<"error">>, raises |-> "Exception"]
      [] came = "undecodable" -> [recorded |-> <<>>, raises |-> "Exception"]
      [] came = "empty"       -> [recorded |-> <<>>, raises |-> "Exception"]
      [] came = "ok"          -> [recorded |-> <<"success">>, raises |-> "none"]

\* the except clauses: the first that matches records its status and raises
Handled(body) ==
    CASE body.raises = "TimeoutException" ->
             [recorded |-> Append(body.recorded, "timeout"), raised |-> TRUE]
      [] body.raises = "HTTPError" ->
             [recorded |-> Append(body.recorded, "http_error"), raised |-> TRUE]
      [] body.raises = "Exception" ->
             [recorded |-> Append(body.recorded, "error"), raised |-> TRUE]
      [] body.raises = "none" ->
             [recorded |-> body.recorded, raised |-> FALSE]

send_message(came) == Handled(TryBody(came))

\* how often status is in recorded
Occurs(recorded, status) == Cardinality({i \in DOMAIN recorded : recorded[i] = status})

\* track_openrouter_request for each status of recorded
Tracked(requests, recorded) ==
    [o \in Outcomes |-> requests[o] + Occurs(recorded, o)]

GatewaySent(came, done) ==
    /\ gateway.calls < MaxCalls
    /\ gateway' = [requests |-> Tracked(gateway.requests, done.recorded),
                   calls |-> gateway.calls + 1,
                   latest |-> [reply |-> came, raised |-> done.raised]]
    /\ UNCHANGED <<now, config, limiter, last, resp, history, solo, loop, probe, store,
                   chats, stamps, reference, race, service, asked>>
GatewaySend(came) == GatewaySent(came, send_message(came))

NextGateway == \E came \in Replies : GatewaySend(came)

SpecGateway == InitStoreSpec /\ [][NextGateway]_vars

\* ==================================================================== claims
\* the ceilings of the class of the latest call
LastMinuteCeiling ==
    IF last.is_chat THEN config.chat_requests_per_minute ELSE config.requests_per_minute
LastHourCeiling ==
    IF last.is_chat THEN config.chat_requests_per_hour ELSE config.requests_per_hour

\* C1 (Spec): while a client makes only non-chat calls in a minute bucket and
\* neither max_burst nor requests_per_hour binds, a call is admitted, with an
\* empty reason, exactly when it is one of the first requests_per_minute calls
\* of the bucket; every later call is denied with the per-minute reason that
\* names requests_per_minute.
C1_FirstNAdmitted ==
    (last # None /\ calls[last.client].plain) =>
        /\ last.allowed <=> calls[last.client].n <= config.requests_per_minute
        /\ last.allowed => last.reason = NoReason
        /\ ~last.allowed => last.reason = MinuteReason(config.requests_per_minute)

\* C1 witness: with requests_per_minute = MaxLimit, call MaxLimit + 1 of a
\* bucket is denied
C1_Witness ==
    /\ last # None
    /\ calls[last.client].plain
    /\ config.requests_per_minute = MaxLimit
    /\ calls[last.client].n = MaxLimit + 1
    /\ ~last.allowed

\* C2 (Spec): in no second are more than max_burst calls of a client
\* admitted, and a call made when max_burst calls were admitted in the second
\* is denied with the burst reason, whatever the minute and hour counts are.
C2_BurstCeiling ==
    /\ \A c \in Clients : admitted[c].s <= config.max_burst
    /\ (last # None /\ last.before.s >= config.max_burst) =>
           (~last.allowed /\ last.reason = BurstReason)

\* C2 witness: a burst denial while minute and hour budget is left
C2_Witness ==
    /\ last # None
    /\ last.before.s = config.max_burst
    /\ last.before.m < LastMinuteCeiling
    /\ last.before.h < LastHourCeiling
    /\ ~last.allowed

\* C3 (SpecPair): what a call of Client2 returns on the limiter shared with
\* Client1 is what it returns on the limiter that sees Client2's calls only.
C3_ClientsIndependent ==
    (last # None /\ last.client = Client2) =>
        solo.result = [allowed |-> last.allowed, reason |-> last.reason,
                       headers |-> last.headers]

\* C3 witness: Client2 is admitted while Client1 has used up its minute
C3_Witness ==
    /\ last # None
    /\ last.client = Client2
    /\ last.allowed
    /\ Get(minute_windows, Client1, now \div SecPerMinute) >= config.requests_per_minute
    /\ Get(minute_windows, Client1, now \div SecPerMinute) >= config.chat_requests_per_minute

\* C4 (SpecHttp): a request on an exempt path is answered by its handler,
\* not with 429, and leaves the limiter as it was.
C4_ExemptBypass ==
    [][(resp' # None /\ resp'.path \in config.exempt_paths) =>
           /\ resp'.forwarded
           /\ resp'.status # TooManyRequests
           /\ UNCHANGED limiter]_vars

\* C4 witness: an exempt request is served while the client's minute is used up
C4_Witness ==
    /\ resp # None
    /\ resp.path \in config.exempt_paths
    /\ resp.forwarded
    /\ Get(minute_windows, Client1, now \div SecPerMinute) >= config.requests_per_minute

\* C5 (Spec): the ceilings of a call are those of its class: the limit headers
\* name them, the minute test compares the minute count with the minute
\* ceiling of the class and the hour test the hour count with its hour ceiling.
C5_CeilingsByClass ==
    last # None =>
        /\ last.headers[LimitMinuteHeader] = LastMinuteCeiling
        /\ last.headers[LimitHourHeader] = LastHourCeiling
        /\ last.before.s < config.max_burst =>
               (last.reason = MinuteReason(LastMinuteCeiling)
                    <=> last.before.m >= LastMinuteCeiling)
        /\ (last.before.s < config.max_burst /\ last.before.m < LastMinuteCeiling) =>
               (last.allowed <=> last.before.h < LastHourCeiling)

\* C5 witness: a non-chat call is admitted at a minute count at which a chat
\* call is denied
C5_Witness ==
    /\ last # None
    /\ ~last.is_chat
    /\ last.allowed
    /\ last.before.m >= config.chat_requests_per_minute

\* C6 as stated (Spec): the remaining headers of an admitted call are
\* max(0, ceiling - count - 1), and no admitted call reports more than an
\* earlier admitted call of the client in the same window did.
C6_RemainingDecreases ==
    (last # None /\ last.allowed) =>
        /\ last.headers[RemainingMinuteHeader]
               = Max(0, LastMinuteCeiling - last.before.m - 1)
        /\ last.headers[RemainingHourHeader]
               = Max(0, LastHourCeiling - last.before.h - 1)
        /\ \A k \in BOOLEAN :
               /\ last.prior[k].m # <<>> =>
                      last.headers[RemainingMinuteHeader] <= last.prior[k].m[1]
               /\ last.prior[k].h # <<>> =>
                      last.headers[RemainingHourHeader] <= last.prior[k].h[1]

\* C6 amended (Spec): the remaining headers of an admitted call are
\* max(0, ceiling - count - 1), and an admitted call reports less than the
\* earlier admitted calls of the same client and class in the same window.
C6_RemainingDecreasesPerClass ==
    (last # None /\ last.allowed) =>
        /\ last.headers[RemainingMinuteHeader]
               = Max(0, LastMinuteCeiling - last.before.m - 1)
        /\ last.headers[RemainingHourHeader]
               = Max(0, LastHourCeiling - last.before.h - 1)
        /\ last.prior[last.is_chat].m # <<>> =>
               last.headers[RemainingMinuteHeader] < last.prior[last.is_chat].m[1]
        /\ last.prior[last.is_chat].h # <<>> =>
               last.headers[RemainingHourHeader] < last.prior[last.is_chat].h[1]

\* C6 witness: an admitted call after admitted calls of both classes in the
\* same minute
C6_Witness ==
    /\ last # None
    /\ last.allowed
    /\ last.prior[TRUE].m # <<>>
    /\ last.prior[FALSE].m # <<>>

\* C7 as stated (SpecHttp): every denied check returns Retry-After, and
\* every 429 response carries it.
C7_RetryAfterOnDenial ==
    /\ (last # None /\ ~last.allowed) => RetryAfterHeader \in DOMAIN last.headers
    /\ (resp # None /\ resp.status = TooManyRequests) =>
           RetryAfterHeader \in DOMAIN resp.headers

\* C8 as stated (Spec): the call a client makes Retry-After seconds after a
\* denial, with the same class and no call in between, is admitted.
C8_AdmittedAfterRetry ==
    (/\ last # None
     /\ last.owed # <<>>
     /\ last.owed[1].at = last.time
     /\ last.owed[1].is_chat = last.is_chat) => last.allowed

\* C9 (Spec): the first failing test in the order burst, minute, hour decides
\* the denial and its reason, and a call is admitted only when none fails.
C9_FirstFailingTest ==
    last # None =>
        LET burst == last.before.s >= config.max_burst
            minute == last.before.m >= LastMinuteCeiling
            hour == last.before.h >= LastHourCeiling
        IN  /\ burst => (~last.allowed /\ last.reason = BurstReason)
            /\ (~burst /\ minute) =>
                   (~last.allowed /\ last.reason = MinuteReason(LastMinuteCeiling))
            /\ (~burst /\ ~minute /\ hour) =>
                   (~last.allowed /\ last.reason = HourReason(LastHourCeiling))
            /\ last.allowed <=> (~burst /\ ~minute /\ ~hour)

\* C9 witness: all three limits are exceeded and the burst reason is given
C9_Witness ==
    /\ last # None
    /\ last.before.s >= config.max_burst
    /\ last.before.m >= LastMinuteCeiling
    /\ last.before.h >= LastHourCeiling
    /\ last.reason = BurstReason

\* C10 (SpecHttp): the response to a request on a non-exempt path, the
\* handler's or the 429, carries the four rate limit headers, the limit
\* headers naming the ceilings of the request's class.
C10_HeadersOnEveryResponse ==
    (resp # None /\ resp.path \notin config.exempt_paths) =>
        /\ RateLimitHeaders \subseteq DOMAIN resp.headers
        /\ resp.headers[LimitMinuteHeader] = ToString(LastMinuteCeiling)
        /\ resp.headers[LimitHourHeader] = ToString(LastHourCeiling)

\* C10 witness: a 429 for a chat request
C10_Witness ==
    /\ resp # None
    /\ resp.status = TooManyRequests
    /\ last.is_chat
    /\ RateLimitHeaders \subseteq DOMAIN resp.headers

\* the 429 dispatch builds for the denial the latest call returned
LastDenial(path) ==
    [path |-> path, status |-> TooManyRequests, forwarded |-> FALSE,
     body |-> [error |-> "rate_limit_exceeded", detail |-> last'.reason,
               type |-> "TooManyRequests"]]

\* C11 (SpecLoop): a request the limiter denies is answered at once with
\* status 429 and the body {error: rate_limit_exceeded, detail: the reason,
\* type: TooManyRequests}, and no handler is invoked or run for it; a request
\* the limiter admits invokes exactly one handler and gets no 429; a handler
\* that returns was invoked once and invokes none.
C11_DenialSkipsHandler ==
    [][/\ (arrived' = arrived + 1 /\ last' # None /\ ~last'.allowed) =>
              /\ resp' # None
              /\ [f \in {"path", "status", "forwarded", "body"} |-> resp'[f]]
                     = LastDenial(resp'.path)
              /\ UNCHANGED <<inflight, served>>
       /\ (arrived' = arrived + 1 /\ last' # None /\ last'.allowed) =>
              /\ resp' = None
              /\ Len(inflight') = Len(inflight) + 1
              /\ SubSeq(inflight', 1, Len(inflight)) = inflight
              /\ served' = served
       /\ served' # served =>
              /\ served' = served + 1
              /\ Len(inflight') = Len(inflight) - 1
              /\ resp'.status # TooManyRequests]_vars

\* C11 witness: a request is denied while the handler of an admitted one is
\* suspended
C11_Witness ==
    /\ last # None
    /\ ~last.allowed
    /\ resp # None
    /\ resp.status = TooManyRequests
    /\ Len(inflight) >= 1
    /\ served >= 1

\* the largest ceilings a stored count can be held against
LargestMinuteCeiling == Max(config.requests_per_minute, config.chat_requests_per_minute)
LargestHourCeiling == Max(config.requests_per_hour, config.chat_requests_per_hour)

\* every count stored in windows is the number of requests admitted for that
\* client in that bucket, and is at most ceiling
CountsExact(windows, counts, ceiling) ==
    \A ip \in DOMAIN windows : \A key \in DOMAIN windows[ip] :
        /\ windows[ip][key] = Tallied(counts, ip, key)
        /\ windows[ip][key] <= ceiling

\* C13 (SpecLoop): with requests in flight and their handlers resumed in any
\* order, every stored count of a (client, bucket) is the number of requests
\* admitted for that client in that bucket, the counts of the current buckets
\* included, and none exceeds the largest ceiling that applies to it.
C13_CountsNotCorrupted ==
    /\ CountsExact(second_windows, granted.s, config.max_burst)
    /\ CountsExact(minute_windows, granted.m, LargestMinuteCeiling)
    /\ CountsExact(hour_windows, granted.h, LargestHourCeiling)
    /\ \A c \in Clients :
           /\ Get(second_windows, c, now) = Tallied(granted.s, c, now)
           /\ Get(minute_windows, c, now \div SecPerMinute)
                  = Tallied(granted.m, c, now \div SecPerMinute)
           /\ Get(hour_windows, c, now \div SecPerHour)
                  = Tallied(granted.h, c, now \div SecPerHour)

\* C13 witness: a request is admitted while two handlers are suspended, and
\* the minute count is at its largest ceiling
C13_Witness ==
    /\ Len(inflight) = 3
    /\ last # None
    /\ last.allowed
    /\ Get(minute_windows, Client1, now \div SecPerMinute) = LargestMinuteCeiling
    /\ LargestMinuteCeiling > 1

\* t is at the end of s / somewhere in s
HasSuffix(s, t) == \E n \in 0..Len(s) : SubSeq(s, n + 1, Len(s)) = t
HasPart(s, t) == \E i \in 1..(Len(s) + 1), j \in 0..Len(s) : SubSeq(s, i, j) = t

\* C12 (SpecClassify): a request is classified as chat exactly when its path
\* ends with /api/chat, its method is POST and its path contains none of
\* /sessions, /new-session, /switch, /clear; among the registered routes only
\* POST /api/chat is held against the chat ceilings, every other one against
\* the general ceilings.
C12_ChatIffSend ==
    (probe # None /\ probe.classified) =>
        /\ probe.is_chat <=>
               /\ HasSuffix(probe.path, ChatPath)
               /\ probe.method = "POST"
               /\ ~HasPart(probe.path, SessionsPart)
               /\ ~HasPart(probe.path, NewSessionPart)
               /\ ~HasPart(probe.path, SwitchPart)
               /\ ~HasPart(probe.path, ClearPart)
        /\ [path |-> probe.path, method |-> probe.method] \in SurfaceRoutes =>
               IF probe.path = ChatPath /\ probe.method = "POST"
               THEN /\ probe.is_chat
                    /\ probe.minute_limit = config.chat_requests_per_minute
                    /\ probe.hour_limit = config.chat_requests_per_hour
               ELSE /\ ~probe.is_chat
                    /\ probe.minute_limit = config.requests_per_minute
                    /\ probe.hour_limit = config.requests_per_hour

\* C12 witness: a POST whose path ends with /api/chat is not a chat request
\* because the path contains /clear
C12_Witness ==
    /\ probe # None
    /\ probe.classified
    /\ probe.method = "POST"
    /\ probe.path = ClearPart \o ChatPath
    /\ ~probe.is_chat
    /\ probe.minute_limit = config.requests_per_minute
    /\ config.requests_per_minute # config.chat_requests_per_minute

\* the step leaves every count of windows that exists after it as it was,
\* but for the count of (client, bucket) in raised, which it raises by one
CountsKept(windows, after, raised) ==
    /\ \A ip \in DOMAIN after : \A key \in DOMAIN after[ip] :
           after[ip][key] = Get(windows, ip, key)
                                + (IF <<ip, key>> \in raised THEN 1 ELSE 0)
    /\ \A b \in raised : b[1] \in DOMAIN after /\ b[2] \in DOMAIN after[b[1]]

\* the step raises the three current counts of the clients in who by one and
\* changes no other count
Raises(who) ==
    /\ CountsKept(second_windows, second_windows', {<<c, now>> : c \in who})
    /\ CountsKept(minute_windows, minute_windows',
                  {<<c, now \div SecPerMinute>> : c \in who})
    /\ CountsKept(hour_windows, hour_windows', {<<c, now \div SecPerHour>> : c \in who})

\* C20 (SpecPair): an admitted check raises the caller's counts of the current
\* second, minute and hour by exactly one and changes no other count; a
\* denied check changes no count of any client; so no count of a bucket
\* decreases while the bucket exists.
C20_CheckFrame ==
    [][/\ now' = now => (Raises({}) \/ \E c \in Clients : Raises({c}))
       /\ (now' = now /\ last' # None /\ last'.allowed) => Raises({last'.client})
       /\ (now' = now /\ last' # None /\ ~last'.allowed) => Raises({})
       /\ now' # now => Raises({})]_vars

\* C20 witness: a check is denied after a cleanup has run, while both clients
\* hold counts
C20_Witness ==
    /\ last # None
    /\ ~last.allowed
    /\ last_cleanup > 0
    /\ Get(minute_windows, Client1, now \div SecPerMinute) > 0
    /\ Get(minute_windows, Client2, now \div SecPerMinute) > 0

\* user and assistant messages alternate, a user message first
Alternates(found) ==
    \A i \in 1..Len(found) :
        found[i].role = (IF i % 2 = 1 THEN "user" ELSE "assistant")

\* the session a request names in its session_id
Named(r) == ParseSessionId(r.arg)[1]

\* C14 (SpecStore): the history of an existing session that has had k
\* successful sends since it was created or last cleared holds exactly 2k
\* messages, each user message followed by its assistant reply; clearing the
\* session reports deleted_count = 2k, leaves it with no message, and leaves
\* the session in place.
C14_SendsAndClear ==
    [][/\ \A id \in DOMAIN sessions' :
              /\ Len(GetHistory(messages', id)) = 2 * log'[id].sends
              /\ Alternates(GetHistory(messages', id))
       /\ (reply'.op = "clear" /\ reply'.success /\ Named(reply') \in DOMAIN sessions) =>
              /\ reply'.deleted_count = 2 * log[Named(reply')].sends
              /\ GetHistory(messages', Named(reply')) = <<>>
              /\ Named(reply') \in DOMAIN sessions']_vars

\* C14 witness: a session is cleared after two sends
C14_Witness ==
    /\ reply # None
    /\ reply.op = "clear"
    /\ reply.deleted_count = 4
    /\ Named(reply) \in DOMAIN sessions
    /\ GetHistory(messages, Named(reply)) = <<>>

\* C15 (SpecStore): a send to, or a clear of, one session leaves the messages
\* of every other session as they were; the history of a session is what was
\* added to it since its last clear, in the order in which it was added,
\* and that is what GET /api/chat/history returns for it.
C15_SessionsIsolated ==
    [][/\ reply'.op \in {"send", "clear"} =>
              \A id \in DOMAIN sessions :
                  Str(id) # reply'.session_id =>
                      GetHistory(messages', id) = GetHistory(messages, id)
       /\ \A id \in DOMAIN sessions' :
              Shown(GetHistory(messages', id)) = log'[id].added
       /\ (reply'.op = "history" /\ reply'.status = 200) =>
              \E id \in DOMAIN sessions' :
                  /\ Str(id) = reply'.session_id
                  /\ reply'.messages = log'[id].added]_vars

\* C15 witness: the history of a session is fetched after sends to two
\* sessions and a clear of the other one
C15_Witness ==
    /\ reply # None
    /\ reply.op = "history"
    /\ reply.count = 2
    /\ Cardinality(DOMAIN sessions) = 2
    /\ Cardinality(messages) = 2
    /\ clock = 4

\* C16 as stated (SpecStore): after a successful switch to a session, a
\* history request without session_id returns that session's id and messages
\* and creates no session, and a clear without session_id clears it.
C16_SwitchMakesCurrent ==
    [][(reply # None /\ reply.op = "switch" /\ reply.status = 200) =>
           /\ (reply'.op = "history" /\ reply'.arg = <<>>) =>
                  /\ reply'.session_id = Str(Named(reply))
                  /\ reply'.messages = reply.messages
                  /\ sessions' = sessions
           /\ (reply'.op = "clear" /\ reply'.arg = <<>>) =>
                  /\ reply'.success
                  /\ reply'.session_id = Str(Named(reply))
                  /\ GetHistory(messages', Named(reply)) = <<>>]_vars

\* C17 as stated (SpecStore): stats for a well-formed id of no existing
\* session is answered with 404.
C17_StatsNotFound ==
    (/\ reply # None
     /\ reply.op = "stats"
     /\ ParseSessionId(reply.arg) # <<>>
     /\ Named(reply) \notin DOMAIN sessions) => reply.status = NotFound

\* C18 as stated (SpecStore): a history request whose session_id value
\* identifies no existing session is answered with 404 and leaves the sessions
\* as they were.
C18_HistoryNotFound ==
    [][(/\ reply'.op = "history"
        /\ reply'.arg # <<>>
        /\ reply'.arg[1] # ""
        /\ \/ ParseSessionId(reply'.arg) = <<>>
           \/ Named(reply') \notin DOMAIN sessions) =>
           /\ reply'.status = NotFound
           /\ sessions' = sessions]_vars

RECURSIVE SumOver(_, _)
SumOver(counts, keys) ==
    IF keys = {} THEN 0
    ELSE LET k == CHOOSE b \in keys : TRUE
         IN  counts[k] + SumOver(counts, keys \ {k})

\* the non-chat calls of client_ip admitted at the instants from..to
AdmittedBetween(client_ip, from, to) ==
    SumOver(stamps, {b \in DOMAIN stamps : b[1] = client_ip /\ from <= b[2] /\ b[2] <= to})

\* C21 as stated (SpecQuota): a chat call is admitted exactly when fewer than
\* max_burst calls were admitted in its second and the chat calls admitted so
\* far in its minute and in its hour are below the chat ceilings, however many
\* non-chat calls were admitted in that minute or hour.
C21_ChatQuotaOwnCount ==
    [][(last' # None /\ last'.is_chat) =>
           (last'.allowed <=>
               /\ admitted[last'.client].s < config.max_burst
               /\ Tallied(chats.m, last'.client, now \div SecPerMinute)
                      < config.chat_requests_per_minute
               /\ Tallied(chats.h, last'.client, now \div SecPerHour)
                      < config.chat_requests_per_hour)]_vars

Granularities ==
    { [windows |-> second_windows, current |-> now],
      [windows |-> minute_windows, current |-> now \div SecPerMinute],
      [windows |-> hour_windows, current |-> now \div SecPerHour] }

\* the maps a cleanup pass run now leaves, each with the map it was run on
Passed ==
    LET c == Cleanup(now, last_cleanup, second_windows, minute_windows, hour_windows)
    IN  { [before |-> second_windows, after |-> c.sw, current |-> now],
          [before |-> minute_windows, after |-> c.mw, current |-> now \div SecPerMinute],
          [before |-> hour_windows, after |-> c.hw, current |-> now \div SecPerHour] }

\* the buckets of ip in windows
Buckets(windows, ip) == IF ip \in DOMAIN windows THEN DOMAIN windows[ip] ELSE {}

\* C23 (SpecDense): a cleanup pass that is due removes, for every client and
\* granularity, the buckets below the current one minus 1 and no other, and
\* keeps the counts of the buckets that stay; a client with no bucket left is
\* no longer in the mapping; after the pass, and after the check that ran it,
\* no client has more than 2 buckets at a granularity.
C23_CleanupPass ==
    [][/\ CleanupDue(now, last_cleanup) =>
              \A g \in Passed :
                  /\ DOMAIN g.after =
                         {ip \in DOMAIN g.before :
                              \E k \in DOMAIN g.before[ip] : k >= g.current - 1}
                  /\ \A ip \in DOMAIN g.after :
                         /\ DOMAIN g.after[ip] =
                                {k \in DOMAIN g.before[ip] : k >= g.current - 1}
                         /\ \A k \in DOMAIN g.after[ip] : g.after[ip][k] = g.before[ip][k]
                         /\ Cardinality(DOMAIN g.after[ip]) <= 2
       /\ last_cleanup' # last_cleanup =>
              /\ \A ip \in Clients :
                     /\ Cardinality(Buckets(second_windows', ip)) <= 2
                     /\ Cardinality(Buckets(minute_windows', ip)) <= 2
                     /\ Cardinality(Buckets(hour_windows', ip)) <= 2
              /\ \A ip \in Clients \ {last'.client} :
                     /\ Buckets(second_windows', ip) =
                            {k \in Buckets(second_windows, ip) : k >= now - 1}
                     /\ Buckets(minute_windows', ip) =
                            {k \in Buckets(minute_windows, ip) :
                                 k >= (now \div SecPerMinute) - 1}
                     /\ Buckets(hour_windows', ip) =
                            {k \in Buckets(hour_windows, ip) :
                                 k >= (now \div SecPerHour) - 1}]_vars

\* C23 witness: a pass is due that takes a client with three minute buckets
\* down to two and removes another client, whose only second bucket is old,
\* from the mapping of the seconds
C23_Witness ==
    /\ CleanupDue(now, last_cleanup)
    /\ \E g \in Passed, ip \in Clients :
           /\ Cardinality(Buckets(g.before, ip)) = 3
           /\ Cardinality(Buckets(g.after, ip)) = 2
    /\ \E g \in Passed, ip \in Clients :
           /\ ip \in DOMAIN g.before
           /\ g.before[ip] # EmptyDict
           /\ ip \notin DOMAIN g.after

C26_CleanupInvisible ==
    last # None => reference.result = [allowed |-> last.allowed, reason |-> last.reason,
                                       headers |-> last.headers]

\* C26 witness: a call is denied by the hour test after a pass has deleted
\* buckets the reference limiter still holds
C26_Witness ==
    /\ last # None
    /\ ~last.allowed
    /\ last.reason = HourReason(LastHourCeiling)
    /\ Buckets(minute_windows, Client1) # Buckets(reference.mw, Client1)
    /\ Buckets(second_windows, Client1) # Buckets(reference.sw, Client1)

\* C27 (SpecDense): for every client, the minute bucket that contains a stored
\* second bucket is stored and its count is at least that of the second
\* bucket, and the hour bucket that contains a stored minute bucket is stored
\* and its count is at least that of the minute bucket.
C27_CounterHierarchy ==
    \A ip \in Clients :
        /\ \A k \in Buckets(second_windows, ip) :
               /\ k \div SecPerMinute \in Buckets(minute_windows, ip)
               /\ second_windows[ip][k] <= minute_windows[ip][k \div SecPerMinute]
        /\ \A k \in Buckets(minute_windows, ip) :
               /\ (k * SecPerMinute) \div SecPerHour \in Buckets(hour_windows, ip)
               /\ minute_windows[ip][k] <= hour_windows[ip][(k * SecPerMinute) \div SecPerHour]

\* C27 witness: after a pass has deleted buckets, the current second count of
\* a client is below its minute count, which is below its hour count
C27_Witness ==
    /\ last_cleanup > 0
    /\ now \in Buckets(second_windows, Client1)
    /\ second_windows[Client1][now] < minute_windows[Client1][now \div SecPerMinute]
    /\ minute_windows[Client1][now \div SecPerMinute]
           < hour_windows[Client1][now \div SecPerHour]

\* C25 (SpecThreads): a thread is admitted exactly when the counts it read on
\* entry are below the ceilings, whatever other threads have stored since;
\* so two threads that have both read a count one below a ceiling are both
\* admitted.
C25_AdmittedOnCountsRead ==
    [][\A i \in Threads :
           (threads[i].pc = "test" /\ threads'[i].pc # "test") =>
               (threads'[i].allowed <=>
                   /\ threads[i].counts.s < config.max_burst
                   /\ threads[i].counts.m < MinuteLimit(config, threads[i].is_chat)
                   /\ threads[i].counts.h < HourLimit(config, threads[i].is_chat))]_vars

\* C25 witness: with max_burst = MaxBurst, both threads have read a second
\* count of max_burst - 1 and both are admitted, which makes more admitted
\* calls in the second than max_burst
C25_Witness ==
    /\ config.max_burst = MaxBurst
    /\ \A i \in Threads :
           /\ threads[i].pc = "done"
           /\ threads[i].allowed
           /\ threads[i].counts.s = config.max_burst - 1
    /\ passed + Cardinality(Threads) > config.max_burst

\* C28 (SpecStore): a send whose gateway call fails is answered with 500 and
\* leaves both tables as they were: the history of every session is what it
\* was, no session has been added, and no session holds a user message
\* without its assistant reply.
C28_FailureRollsBack ==
    [][(reply'.op = "send" /\ reply'.status = ServerError) =>
           /\ sessions' = sessions
           /\ messages' = messages
           /\ \A id \in DOMAIN sessions' :
                  /\ GetHistory(messages', id) = GetHistory(messages, id)
                  /\ Len(GetHistory(messages', id)) % 2 = 0]_vars

\* C28 witness: a send to the only session, which holds one exchange, has
\* failed and the session still holds that exchange only
C28_Witness ==
    /\ reply # None
    /\ reply.op = "send"
    /\ reply.status = ServerError
    /\ ParseSessionId(reply.arg) # <<>>
    /\ Named(reply) \in DOMAIN sessions
    /\ Len(GetHistory(messages, Named(reply))) = 2
    /\ Cardinality(DOMAIN sessions) = 1
    /\ issued = 1

\* C29 (SpecService): whatever methods of the in-memory service are called,
\* current_session_id is a key of the session map. A delete_session of the
\* current session returns True, removes it and makes a session current that
\* is new and empty; a delete_session of any other id leaves the current
\* session and its messages as they were; a switch_session to an id that is
\* not a key returns False and changes nothing.
C29_CurrentSessionKept ==
    /\ [](service.current_session_id \in DOMAIN service.sessions)
    /\ [][asked'.calls # asked.calls =>
            LET c == service.current_session_id
                l == asked'.latest
            IN  /\ (l.op = "delete_session" /\ l.session_id = <<c>>) =>
                       /\ l.returned = TRUE
                       /\ c \notin DOMAIN service'.sessions
                       /\ service'.current_session_id \notin DOMAIN service.sessions
                       /\ service'.sessions[service'.current_session_id] = <<>>
                /\ (l.op = "delete_session" /\ l.session_id # <<c>>) =>
                       /\ service'.current_session_id = c
                       /\ service'.sessions[c] = service.sessions[c]
                       /\ l.returned = (l.session_id[1] \in DOMAIN service.sessions)
                /\ (l.op = "switch_session" /\ l.session_id[1] \notin DOMAIN service.sessions) =>
                       /\ l.returned = FALSE
                       /\ service' = service]_vars

\* C29 witness: the current session, which was not the only one, has been
\* deleted, and a session with messages is left beside the new current one
C29_Witness ==
    /\ asked.latest # None
    /\ asked.latest.op = "delete_session"
    /\ asked.latest.session_id = <<asked.latest.was>>
    /\ asked.latest.was \notin DOMAIN service.sessions
    /\ \E id \in DOMAIN service.sessions :
           /\ id # service.current_session_id
           /\ service.sessions[id] # <<>>

\* the requests counted under all statuses together
CountedRequests(requests) ==
    requests["success"] + requests["timeout"] + requests["http_error"] + requests["error"]

\* C30 (SpecGateway): every call of send_message adds exactly one to the
\* gateway request counter, under one of the four statuses, whatever the
\* POST brings, and the call returns exactly when the POST brings a 200
\* response with choices.
C30_OneOutcomePerCall ==
    [][gateway'.calls # gateway.calls =>
          /\ CountedRequests(gateway'.requests) = CountedRequests(gateway.requests) + 1
          /\ \A o \in Outcomes : gateway'.requests[o] >= gateway.requests[o]
          /\ gateway'.latest.raised = (gateway'.latest.reply # "ok")]_vars

====
